---- MODULE Spec2Model ----
(***************************************************************************)
(* Optimization job orchestrator of EloAr-Back.                            *)
(*                                                                         *)
(* The model follows src/src/services/optimization.service.ts (the         *)
(* background pipeline and the cancel path),                               *)
(* src/src/repositories/distribution.repository.ts (the run, distribution  *)
(* and assignment tables) and src/src/controllers/distribution.controller  *)
(* (the HTTP entry points).  A step ends at an await of the source that    *)
(* writes a table or calls the solver, so the steps of a run's background  *)
(* task interleave with cancel requests and with the tasks of other runs.  *)
(* Every database statement of the pipeline may fail.                      *)
(***************************************************************************)
EXTENDS Integers, Sequences, FiniteSets, TLC

VARIABLES
    students,        \* number of student rows of the scope (ids 1..students)
    classes,         \* capacities of the class rows of the scope (ids 1..Len)
    runs,            \* optimization_runs table: run id -> row
    distributions,   \* distributions table: set of rows
    assignments,     \* distribution_assignments table: set of rows
    nextDistributionId, \* SERIAL sequence of distributions.id
    task,            \* background task of each run: position and locals
    solverCalls,     \* run id -> number of POST /api/optimize requests sent
    cancel,          \* the cancelOptimization call in progress, if any
    cancelCount,     \* number of cancelOptimization calls made so far
    cancelResult,    \* return value of the last finished cancelOptimization
    now,             \* run id -> the clock new Date() reads for that run's row
    reply,           \* the last reply of DistributionController.optimize
    deletion,        \* the DistributionController.delete call in progress
    configurations,  \* configurations table: configuration id -> row
    resolution,      \* the last weights resolution: its input and its result
    lastUpdate       \* the last direct updateOptimizationRun call and its result

vars == <<students, classes, runs, distributions, assignments,
          nextDistributionId, task, solverCalls, cancel, cancelCount,
          cancelResult, now, reply, deletion, configurations, resolution,
          lastUpdate>>

----------------------------------------------------------------------------
(* Bounds of the model. *)

MaxRuns == 1
MaxCancels == 2

----------------------------------------------------------------------------
(* Optional values: SQL NULL / JS null or undefined is None. *)

None == <<>>
Some(v) == <<v>>

----------------------------------------------------------------------------
(* Messages of the errors the pipeline throws. *)

MsgNoStudents == "Nenhum aluno encontrado para a serie e ano letivo selecionados"
MsgNoClasses == "Nenhuma turma encontrada para a serie e ano letivo selecionados"
MsgCapacity(n, c) ==
    "Capacidade insuficiente: " \o ToString(n) \o " alunos para "
        \o ToString(c) \o " vagas"
MsgSolverFailed == "Otimizacao falhou"
MsgConnRefused == "Servico Python nao esta disponivel. Verifique se esta rodando na porta 8000."
MsgTimeout == "Timeout: A otimizacao demorou mais de 10 minutos"
MsgTransport == "Erro ao comunicar com servico de otimizacao"
MsgExecFallback == "Erro ao executar otimizacao"
MsgStartFallback == "Erro desconhecido"
\* message of an error thrown by the pg driver
MsgDatabase == "database error"

\* JS `a || b` on strings: the empty string is falsy
OrElse(a, b) == IF a = "" THEN b ELSE a

----------------------------------------------------------------------------
(* Run Store: the optimization_runs rows. *)

Terminal == {"COMPLETED", "FAILED", "CANCELLED"}

\* createOptimizationRun inserting the run as already RUNNING
NewRunRunning ==
    [status |-> "RUNNING", progress |-> 0, currentGeneration |-> 0,
     bestFitness |-> None, executionTimeSeconds |-> None,
     errorMessage |-> None, distributionId |-> None,
     startedAt |-> None, completedAt |-> None]

\* createOptimizationRun: the row the INSERT produces
NewRun ==
    [status |-> "PENDING", progress |-> 0, currentGeneration |-> 0,
     bestFitness |-> None, executionTimeSeconds |-> None,
     errorMessage |-> None, distributionId |-> None,
     startedAt |-> None, completedAt |-> None]

\* a SET clause that also clears error_message when none is supplied
ApplyUpdatesClearingError(run, updates) ==
    [f \in DOMAIN run |->
        IF f \in DOMAIN updates THEN updates[f]
        ELSE IF f = "errorMessage" THEN None ELSE run[f]]

\* the SET clause built by updateOptimizationRun: the supplied fields only
ApplyUpdates(run, updates) ==
    [f \in DOMAIN run |->
        IF f \in DOMAIN updates THEN updates[f] ELSE run[f]]

\* updateOptimizationRun(id, updates) as a function of the table
updateOptimizationRun(table, id, updates) ==
    IF id \notin DOMAIN table
    THEN table
    ELSE [table EXCEPT ![id] = ApplyUpdates(table[id], updates)]

----------------------------------------------------------------------------
(* Background task locals. *)

\* `response` is what axios.post produced for the task's request, `result`
\* the response.data callPythonService returned, `saved` the number of
\* assignments createAssignments was given once it has returned
NewTask ==
    [pc |-> "find", students |-> 0, classes |-> <<>>, response |-> None,
     result |-> None, distributionId |-> None, saved |-> None,
     error |-> None]

RECURSIVE SumSeq(_)
SumSeq(s) == IF s = <<>> THEN 0 ELSE Head(s) + SumSeq(Tail(s))

\* classes.reduce((sum, c) => sum + c.capacity, 0)
totalCapacity(cs) == SumSeq(cs)

Throw(t, msg, where) == [t EXCEPT !.pc = where, !.error = Some(msg)]

----------------------------------------------------------------------------
(* Solver Client. *)

Pair(s, c) == [studentId |-> s, classId |-> c]

\* a fitness score, a JS number, is counted in thousandths
Score(units, thousandths) == units * 1000 + thousandths

\* the cast to DECIMAL(10,2) cutting the third decimal off
Decimal2Truncating(x) == (x \div 10) * 10

\* the cast of a score to DECIMAL(10,2), the type of
\* distributions.fitness_score and optimization_runs.best_fitness: the
\* value is rounded to hundredths (scores are not negative)
Decimal2(x) == ((x + 5) \div 10) * 10

\* what axios.post can produce: code = "" is an HTTP 2xx response carrying
\* response.data, anything else an AxiosError with that code and message;
\* `body` is the message of the solver's response body (response.data.message
\* of a 2xx response, error.response.data.message of an error status), ""
\* when there is no response or no message in it
Response(success, message, fitness, list) ==
    [code |-> "", message |-> message, body |-> message, success |-> success,
     fitnessScore |-> fitness, generationCount |-> 42,
     executionTime |-> 1200, assignments |-> list]
AxiosError(code, message, body) ==
    [code |-> code, message |-> message, body |-> body, success |-> FALSE,
     fitnessScore |-> 0, generationCount |-> 0,
     executionTime |-> 0, assignments |-> <<>>]

\* the responses and errors the solver is made to produce: successes with
\* one pair per student and a score of 950.125, with one student twice and
\* a score of 950, and with an empty list and a score of 0; refusals with and without a message; a refused connection,
\* a timeout, an error status whose body carries a message, and an error
\* without a message
SolverOutcomes ==
    {Response(TRUE, "", Score(950, 125), <<Pair(1, 1), Pair(2, 2)>>),
     Response(TRUE, "", Score(950, 0), <<Pair(1, 1), Pair(1, 2)>>),
     Response(TRUE, "", Score(0, 0), <<>>),
     Response(FALSE, "", 0, <<>>),
     Response(FALSE, "solver: infeasible", 0, <<>>),
     AxiosError("ECONNREFUSED", "connect ECONNREFUSED 127.0.0.1:8000", ""),
     AxiosError("ECONNABORTED", "timeout of 600000ms exceeded", ""),
     AxiosError("ERR_BAD_RESPONSE", "Request failed with status code 500",
                "solver: population too small"),
     AxiosError("ERR_NETWORK", "", "")}

\* callPythonService without the test of response.data.success
callPythonServiceErrorIgnoringSuccess(o) ==
    IF o.code = "" THEN ""
    ELSE IF o.code = "ECONNREFUSED" THEN MsgConnRefused
    ELSE IF o.code = "ECONNABORTED" THEN MsgTimeout
    ELSE OrElse(o.message, MsgTransport)

\* callPythonService: the message of the Error it throws, or "" when it
\* returns response.data
callPythonServiceError(o) ==
    IF o.code = ""
    THEN IF ~o.success
         THEN OrElse(OrElse(o.message, MsgSolverFailed), MsgTransport)
         ELSE ""
    ELSE IF o.code = "ECONNREFUSED" THEN MsgConnRefused
    ELSE IF o.code = "ECONNABORTED" THEN MsgTimeout
    ELSE OrElse(o.message, MsgTransport)

----------------------------------------------------------------------------
(* Result rows. *)

\* DistributionRepository.create: the row the INSERT produces
NewDistribution(id, runId, result) ==
    [id |-> id,
     fitnessScore |-> IF result.fitnessScore = 0 THEN None
                      ELSE Some(Decimal2(result.fitnessScore)),
     isFinal |-> FALSE,
     isOptimized |-> TRUE,
     metadata |-> [generationCount |-> result.generationCount,
                   executionTime |-> result.executionTime,
                   runId |-> runId]]

\* result.assignments.map(...): the rows handed to createAssignments
AssignmentRows(distributionId, list) ==
    {[distributionId |-> distributionId, studentId |-> list[i].studentId,
      classId |-> list[i].classId] : i \in DOMAIN list}

\* distribution_assignments without uq_distribution_student
InsertAcceptedWithoutUnique(list) ==
    \A i \in DOMAIN list :
        /\ list[i].studentId \in 1..students
        /\ list[i].classId \in DOMAIN classes

\* the constraints of distribution_assignments: uq_distribution_student and
\* the foreign keys to students and classes
InsertAccepted(list) ==
    /\ \A i, j \in DOMAIN list :
          list[i].studentId = list[j].studentId => i = j
    /\ \A i \in DOMAIN list :
          /\ list[i].studentId \in 1..students
          /\ list[i].classId \in DOMAIN classes

----------------------------------------------------------------------------
\* the scopes the model starts from: two classes of one seat each or no
\* class, with no student, as many students as seats, or one student more
(* The weight vectors of the three configurations the migration seeds; the  *)
(* first has the values prepareOptimizationPayload falls back to.           *)
Weights(critical, high, behavioral, sibling, preferences, academic, size) ==
    [critical_constraints |-> critical, high_constraints |-> high,
     behavioral_separation |-> behavioral, sibling_rules |-> sibling,
     student_preferences |-> preferences, academic_balance |-> academic,
     class_size_balance |-> size]

BalancedWeights == Weights(1000, 500, 300, 200, 100, 50, 50)
RestrictionWeights == Weights(1000, 700, 500, 200, 50, 30, 30)
SocialWeights == Weights(1000, 400, 200, 300, 400, 50, 50)

FallbackWeights == Weights(1000, 500, 300, 200, 100, 50, 50)

SeedConfigurations ==
    << [isDefault |-> TRUE, weights |-> BalancedWeights],
       [isDefault |-> FALSE, weights |-> RestrictionWeights],
       [isDefault |-> FALSE, weights |-> SocialWeights] >>

ClassTables == {<<>>, <<1, 1>>}
StudentTables == {0, 2, 3}

Init ==
    /\ students \in StudentTables
    /\ classes \in ClassTables
    /\ runs = <<>>
    /\ distributions = {}
    /\ assignments = {}
    /\ nextDistributionId = 1
    /\ task = <<>>
    /\ solverCalls = <<>>
    /\ cancel = [pc |-> "idle", runId |-> 0, status |-> ""]
    /\ cancelCount = 0
    /\ cancelResult = None
    /\ now = <<>>
    /\ reply = None
    /\ deletion = [pc |-> "idle", id |-> 0]
    /\ configurations = SeedConfigurations
    /\ resolution = None
    /\ lastUpdate = None

db == <<students, classes, configurations>>
direct == <<resolution, lastUpdate>>
results == <<distributions, assignments, nextDistributionId>>
cancels == <<cancel, cancelCount, cancelResult>>
http == <<reply, deletion>>

\* the replies of DistributionController.optimize
Accepted(id, run) == Some([code |-> 202, runId |-> id, status |-> run.status])
BadRequest == Some([code |-> 400, runId |-> 0, status |-> ""])
ServerError == Some([code |-> 500, runId |-> 0, status |-> MsgDatabase])

\* DistributionController.optimize: a request without schoolYearId or
\* gradeLevelId is answered 400; otherwise createOptimizationRun inserts the
\* run, startOptimization starts the task without awaiting it and the reply
\* is 202 with the row the INSERT returned; a rejected INSERT is answered
\* 500 and nothing is started.
Optimize ==
    /\ Len(runs) < MaxRuns
    /\ \/ /\ reply' = BadRequest
          /\ UNCHANGED <<runs, task, solverCalls, now>>
       \/ /\ runs' = Append(runs, NewRun)
          /\ task' = Append(task, NewTask)
          /\ solverCalls' = Append(solverCalls, 0)
          /\ now' = Append(now, 1)
          /\ reply' = Accepted(Len(runs) + 1, NewRun)
       \/ /\ reply' = ServerError
          /\ UNCHANGED <<runs, task, solverCalls, now>>
    /\ UNCHANGED <<deletion, db, direct, results, cancels>>

At(r, pc) == r \in DOMAIN task /\ task[r].pc = pc

\* a step of task r that fails with a database error and lands in `where`
DbFails(r, where) ==
    /\ task' = [task EXCEPT ![r] = Throw(@, MsgDatabase, where)]
    /\ UNCHANGED <<http, db, direct, runs, results, solverCalls, cancels, now>>

\* executeOptimization: findOptimizationRunById, before the try block.
\* Runs are never deleted, so the lookup finds the row or throws.
ExecFindRun(r) ==
    /\ At(r, "find")
    /\ \/ /\ task' = [task EXCEPT ![r].pc = "setRunning"]
          /\ UNCHANGED <<http, db, direct, runs, results, solverCalls, cancels, now>>
       \/ DbFails(r, "startCatch")

\* a task that waits until no other run is RUNNING before it starts
ExecSetRunningExclusive(r) ==
    /\ r \in DOMAIN task /\ task[r].pc = "setRunning"
    /\ \A o \in DOMAIN runs \ {r} : runs[o].status # "RUNNING"
    /\ \/ /\ runs' = updateOptimizationRun(runs, r,
                        [status |-> "RUNNING", startedAt |-> Some(now[r])])
          /\ now' = [now EXCEPT ![r] = @ + 1]
          /\ task' = [task EXCEPT ![r].pc = "prepare"]
          /\ UNCHANGED <<students, classes, configurations, resolution,
                         lastUpdate, reply, deletion, distributions,
                         assignments, nextDistributionId, solverCalls,
                         cancel, cancelCount, cancelResult>>
       \/ /\ task' = [task EXCEPT ![r].pc = "execCatch",
                                  ![r].error = Some(MsgDatabase)]
          /\ UNCHANGED <<students, classes, configurations, resolution,
                         lastUpdate, reply, deletion, runs, distributions,
                         assignments, nextDistributionId, solverCalls,
                         cancel, cancelCount, cancelResult, now>>

\* executeOptimization: status RUNNING, startedAt
ExecSetRunning(r) ==
    /\ At(r, "setRunning")
    /\ \/ /\ runs' = updateOptimizationRun(runs, r,
                        [status |-> "RUNNING", startedAt |-> Some(now[r])])
          /\ now' = [now EXCEPT ![r] = @ + 1]
          /\ task' = [task EXCEPT ![r].pc = "prepare"]
          /\ UNCHANGED <<http, db, direct, results, solverCalls, cancels>>
       \/ DbFails(r, "execCatch")

\* the capacity check with an off-by-one: a scope one seat short passes
InsufficientCapacityOffByOne(n, cs) == totalCapacity(cs) + 1 < n

\* the capacity precondition of prepareOptimizationPayload
InsufficientCapacity(n, cs) == totalCapacity(cs) < n

\* prepareOptimizationPayload: the message of the Error its checks throw
\* for n students and the classes cs, or "" when they pass
prepareOptimizationPayloadError(n, cs) ==
    IF n = 0 THEN MsgNoStudents
    ELSE IF Len(cs) = 0 THEN MsgNoClasses
    ELSE IF InsufficientCapacity(n, cs) THEN MsgCapacity(n, totalCapacity(cs))
    ELSE ""

\* prepareOptimizationPayload: the reads of students, classes, constraints,
\* preferences, sibling rules and configuration, and the three checks.  The
\* reads change nothing and nothing changes the tables they read, so they
\* are one step; `students` and `classes` of the task are what the checks
\* saw (the classes are read only when the students check passed).
PrepareOptimizationPayload(r) ==
    /\ At(r, "prepare")
    /\ \/ /\ LET cs == IF students = 0 THEN <<>> ELSE classes
                 msg == prepareOptimizationPayloadError(students, classes)
             IN task' = [task EXCEPT ![r] =
                    IF msg = ""
                    THEN [@ EXCEPT !.students = students, !.classes = cs,
                                   !.pc = "callSolver"]
                    ELSE Throw([@ EXCEPT !.students = students,
                                         !.classes = cs],
                               msg, "execCatch")]
          /\ UNCHANGED <<http, db, direct, runs, results, solverCalls, cancels, now>>
       \/ DbFails(r, "execCatch")

\* callPythonService with one retry: after a first request that ends in an
\* error the task sends the request again
CallPythonServiceRetrying(r) ==
    /\ At(r, "callSolver")
    /\ solverCalls' = [solverCalls EXCEPT ![r] = @ + 1]
    /\ \E o \in SolverOutcomes :
          task' = [task EXCEPT ![r] =
              IF callPythonServiceError(o) = ""
              THEN [@ EXCEPT !.response = Some(o), !.result = Some(o),
                             !.pc = "createDistribution"]
              ELSE IF solverCalls[r] = 0
              THEN [@ EXCEPT !.response = Some(o)]
              ELSE Throw([@ EXCEPT !.response = Some(o)],
                         callPythonServiceError(o), "execCatch")]
    /\ UNCHANGED <<http, db, direct, runs, results, cancels, now>>

\* callPythonService: one POST, then the translation of its outcome
CallPythonService(r) ==
    /\ At(r, "callSolver")
    /\ solverCalls' = [solverCalls EXCEPT ![r] = @ + 1]
    /\ \E o \in SolverOutcomes :
          task' = [task EXCEPT ![r] =
              IF callPythonServiceError(o) = ""
              THEN [@ EXCEPT !.response = Some(o), !.result = Some(o),
                             !.pc = "createDistribution"]
              ELSE Throw([@ EXCEPT !.response = Some(o)],
                         callPythonServiceError(o), "execCatch")]
    /\ UNCHANGED <<http, db, direct, runs, results, cancels, now>>

\* the foreign keys to distributions(id) of distribution_assignments and of
\* optimization_runs.distribution_id accept the id of an existing row only
DistributionExists(id) == \E d \in distributions : d.id = id

\* executeOptimization: distributionRepository.create
CreateDistribution(r) ==
    /\ At(r, "createDistribution")
    /\ \/ /\ distributions' = distributions \cup
                 {NewDistribution(nextDistributionId, r, task[r].result[1])}
          /\ nextDistributionId' = nextDistributionId + 1
          /\ task' = [task EXCEPT ![r].distributionId = Some(nextDistributionId),
                                  ![r].pc = "createAssignments"]
          /\ UNCHANGED <<http, db, direct, runs, assignments, solverCalls, cancels, now>>
       \/ DbFails(r, "execCatch")

\* executeOptimization: distributionRepository.createAssignments, one INSERT
\* of all rows; an empty list returns without a statement
CreateAssignments(r) ==
    /\ At(r, "createAssignments")
    /\ LET list == task[r].result[1].assignments
           rows == AssignmentRows(task[r].distributionId[1], list)
       IN \/ /\ list = <<>> \/
                (InsertAccepted(list) /\
                    DistributionExists(task[r].distributionId[1]))
             /\ assignments' = assignments \cup rows
             /\ task' = [task EXCEPT ![r].saved = Some(Len(list)),
                                     ![r].pc = "setCompleted"]
             /\ UNCHANGED <<http, db, direct, runs, distributions, nextDistributionId,
                            solverCalls, cancels, now>>
          \/ /\ list # <<>>
             /\ DbFails(r, "execCatch")

\* executeOptimization: status COMPLETED and the result fields; the UPDATE
\* is rejected when the Distribution it names was deleted meanwhile
ExecSetCompleted(r) ==
    /\ At(r, "setCompleted")
    /\ \/ /\ DistributionExists(task[r].distributionId[1])
          /\ LET result == task[r].result[1]
             IN runs' = updateOptimizationRun(runs, r,
                    [status |-> "COMPLETED",
                     progress |-> 100,
                     currentGeneration |-> result.generationCount,
                     bestFitness |-> Some(Decimal2(result.fitnessScore)),
                     executionTimeSeconds |-> Some(result.executionTime \div 1000),
                     distributionId |-> task[r].distributionId,
                     completedAt |-> Some(now[r])])
          /\ now' = [now EXCEPT ![r] = @ + 1]
          /\ task' = [task EXCEPT ![r].pc = "done"]
          /\ UNCHANGED <<http, db, direct, results, solverCalls, cancels>>
       \/ DbFails(r, "execCatch")

\* executeOptimization: the catch block; it rethrows the error it caught,
\* or throws the error of its own update
ExecCatch(r) ==
    /\ At(r, "execCatch")
    /\ \/ /\ runs' = updateOptimizationRun(runs, r,
                        [status |-> "FAILED",
                         errorMessage |->
                             Some(OrElse(task[r].error[1], MsgExecFallback)),
                         completedAt |-> Some(now[r])])
          /\ now' = [now EXCEPT ![r] = @ + 1]
          /\ task' = [task EXCEPT ![r].pc = "startCatch"]
          /\ UNCHANGED <<http, db, direct, results, solverCalls, cancels>>
       \/ DbFails(r, "startCatch")

\* startOptimization: the .catch handler; its update is not awaited and a
\* rejection of it is dropped
StartCatch(r) ==
    /\ At(r, "startCatch")
    /\ \/ /\ runs' = updateOptimizationRun(runs, r,
                        [status |-> "FAILED",
                         errorMessage |->
                             Some(OrElse(task[r].error[1], MsgStartFallback)),
                         completedAt |-> Some(now[r])])
          /\ now' = [now EXCEPT ![r] = @ + 1]
          /\ task' = [task EXCEPT ![r].pc = "done"]
          /\ UNCHANGED <<http, db, direct, results, solverCalls, cancels>>
       \/ /\ task' = [task EXCEPT ![r].pc = "done"]
          /\ UNCHANGED <<http, db, direct, runs, results, solverCalls, cancels, now>>

----------------------------------------------------------------------------
(* The cancel path. *)

\* the guard with the FAILED test forgotten
CannotCancelCompletedOnly(status) == status = "COMPLETED"

\* the guard of cancelOptimization: finished runs are not cancelled
CannotCancel(status) == status = "COMPLETED" \/ status = "FAILED"

\* cancelOptimization: findOptimizationRunById and the early return.  Runs
\* are never deleted and the ids tried are those of created runs, so the
\* lookup finds the row.  A lookup that throws ends the call with no effect
\* and no return value; that step changes nothing and is left out.  While
\* the call is between its two statements `cancel` holds its run id and the
\* status its lookup returned.
CancelRead(id) ==
    /\ cancel.pc = "idle"
    /\ cancelCount < MaxCancels
    /\ cancelCount' = cancelCount + 1
    /\ IF CannotCancel(runs[id].status)
       THEN /\ cancel' = [pc |-> "idle", runId |-> 0, status |-> ""]
            /\ cancelResult' = Some(FALSE)
       ELSE /\ cancel' = [pc |-> "update", runId |-> id,
                          status |-> runs[id].status]
            /\ cancelResult' = None
    /\ UNCHANGED <<http, db, direct, runs, results, task, solverCalls, now>>

\* cancelOptimization: the update to CANCELLED and the return of true
CancelWrite ==
    /\ cancel.pc = "update"
    /\ cancel' = [pc |-> "idle", runId |-> 0, status |-> ""]
    /\ \/ /\ runs' = updateOptimizationRun(runs, cancel.runId,
                        [status |-> "CANCELLED",
                         completedAt |-> Some(now[cancel.runId])])
          /\ now' = [now EXCEPT ![cancel.runId] = @ + 1]
          /\ cancelResult' = Some(TRUE)
       \/ /\ cancelResult' = None
          /\ UNCHANGED <<runs, now>>
    /\ UNCHANGED <<http, db, direct, results, task, solverCalls, cancelCount>>

----------------------------------------------------------------------------
(* Deletion of a Distribution. *)

\* the deletion without the SET NULL: the runs keep the id of the deleted row
RunsKeepingReference(id) == runs

\* DELETE FROM distributions: the row goes, its assignments go with it
\* (ON DELETE CASCADE) and the runs that name it lose the reference
\* (optimization_runs.distribution_id ... ON DELETE SET NULL)
RunsWithout(id) ==
    [r \in DOMAIN runs |->
        IF runs[r].distributionId = Some(id)
        THEN [runs[r] EXCEPT !.distributionId = None]
        ELSE runs[r]]

\* DistributionController.delete: deleteAssignments(id), its first
\* statement.  The ids tried are those a run's record names, the ids the
\* status endpoint hands out; a first statement that fails ends the call
\* with no effect and is left out.
DeleteAssignments(id) ==
    /\ deletion.pc = "idle"
    /\ DistributionExists(id)
    /\ \E r \in DOMAIN runs : runs[r].distributionId = Some(id)
    /\ assignments' = {a \in assignments : a.distributionId # id}
    /\ deletion' = [pc |-> "delete", id |-> id]
    /\ UNCHANGED <<reply, db, direct, runs, distributions, nextDistributionId, task,
                   solverCalls, cancels, now>>

\* a DELETE the run's reference blocks (a foreign key with no ON DELETE
\* action): it goes through only when no run names the Distribution
DeleteDistributionRestricted ==
    /\ deletion.pc = "delete"
    /\ deletion' = [pc |-> "idle", id |-> 0]
    /\ \/ /\ \A r \in DOMAIN runs : runs[r].distributionId # Some(deletion.id)
          /\ distributions' = {d \in distributions : d.id # deletion.id}
          /\ assignments' = {a \in assignments : a.distributionId # deletion.id}
          /\ UNCHANGED runs
       \/ UNCHANGED <<distributions, assignments, runs>>
    /\ UNCHANGED <<students, classes, configurations, resolution, lastUpdate,
                   reply, nextDistributionId, task, solverCalls, cancel,
                   cancelCount, cancelResult, now>>

\* DistributionController.delete: distributionRepository.delete(id), its
\* second statement, which may fail
DeleteDistribution ==
    /\ deletion.pc = "delete"
    /\ deletion' = [pc |-> "idle", id |-> 0]
    /\ \/ /\ distributions' = {d \in distributions : d.id # deletion.id}
          /\ assignments' = {a \in assignments : a.distributionId # deletion.id}
          /\ runs' = RunsWithout(deletion.id)
       \/ UNCHANGED <<distributions, assignments, runs>>
    /\ UNCHANGED <<reply, db, direct, nextDistributionId, task, solverCalls, cancels,
                   now>>

----------------------------------------------------------------------------
Step(r) ==
    \/ ExecFindRun(r)
    \/ ExecSetRunning(r)
    \/ PrepareOptimizationPayload(r)
    \/ CallPythonService(r)
    \/ CreateDistribution(r)
    \/ CreateAssignments(r)
    \/ ExecSetCompleted(r)
    \/ ExecCatch(r)
    \/ StartCatch(r)

Next ==
    \/ Optimize
    \/ \E r \in 1..MaxRuns : Step(r)
    \/ \E id \in DOMAIN runs : CancelRead(id)
    \/ CancelWrite
    \/ \E id \in 1..MaxRuns : DeleteAssignments(id)
    \/ DeleteDistribution

Spec == Init /\ [][Next]_vars

----------------------------------------------------------------------------
(* The weights of a run's payload (prepareOptimizationPayload, the part    *)
(* after the capacity check).  The configurations table holds at most one  *)
(* row flagged default (create and update unset the flag of the others in  *)
(* the same transaction), weights is NOT NULL, and optimization_runs.      *)
(* configuration_id is NULL or names a row of the table (foreign key).     *)

MaxConfigurations == 2

ConfigurationRows ==
    [isDefault : BOOLEAN,
     weights : {BalancedWeights, RestrictionWeights, SocialWeights}]

ConfigurationTables ==
    {t \in UNION {[1..n -> ConfigurationRows] : n \in 0..MaxConfigurations} :
        Cardinality({i \in DOMAIN t : t[i].isDefault}) <= 1}

(* ConfigurationRepository.findById: the row, or nothing. *)
findById(table, id) ==
    IF id \in DOMAIN table THEN Some(table[id]) ELSE None

(* ConfigurationRepository.findActive: WHERE is_default = true LIMIT 1. *)
findActive(table) ==
    IF \E i \in DOMAIN table : table[i].isDefault
    THEN Some(table[CHOOSE i \in DOMAIN table : table[i].isDefault])
    ELSE None

resolveWeightsIgnoringRun(configurationId, table) ==
    IF findActive(table) # None THEN findActive(table)[1].weights
    ELSE FallbackWeights

(* The three-step resolution: the run's configuration, else the default    *)
(* one, else the literal vector.                                           *)
resolveWeights(configurationId, table) ==
    LET config == IF configurationId # None
                  THEN findById(table, configurationId[1]) ELSE None
        named == IF config # None THEN Some(config[1].weights) ELSE None
        active == IF named = None THEN findActive(table) ELSE None
    IN  IF named # None THEN named[1]
        ELSE IF active # None THEN active[1].weights
        ELSE FallbackWeights

ConfigurationIdsOf(table) == {None} \cup {Some(i) : i \in DOMAIN table}

InitWeights ==
    /\ students = 0
    /\ classes = <<>>
    /\ runs = <<>>
    /\ distributions = {}
    /\ assignments = {}
    /\ nextDistributionId = 1
    /\ task = <<>>
    /\ solverCalls = <<>>
    /\ cancel = [pc |-> "idle", runId |-> 0, status |-> ""]
    /\ cancelCount = 0
    /\ cancelResult = None
    /\ now = <<>>
    /\ reply = None
    /\ deletion = [pc |-> "idle", id |-> 0]
    /\ configurations \in ConfigurationTables
    /\ resolution = None
    /\ lastUpdate = None

ResolveWeights ==
    /\ \E configurationId \in ConfigurationIdsOf(configurations) :
          resolution' = Some([configurationId |-> configurationId,
                              weights |-> resolveWeights(configurationId,
                                                         configurations)])
    /\ UNCHANGED <<db, http, runs, results, task, solverCalls, cancels, now,
                   lastUpdate>>

NextWeights == ResolveWeights

WeightsSpec == InitWeights /\ [][NextWeights]_vars

----------------------------------------------------------------------------
(* updateOptimizationRun called directly: one call on a table of rows in   *)
(* the shapes the pipeline leaves behind, with the parameter objects the   *)
(* service passes, the empty object and objects that supply null.          *)

MaxRows == 2

RunningRun ==
    [NewRun EXCEPT !.status = "RUNNING", !.startedAt = Some(1)]

FailedRun ==
    [RunningRun EXCEPT !.status = "FAILED",
                       !.errorMessage = Some(MsgSolverFailed),
                       !.completedAt = Some(2)]

CompletedRun ==
    [RunningRun EXCEPT !.status = "COMPLETED", !.progress = 100,
                       !.currentGeneration = 42,
                       !.bestFitness = Some(Score(950, 130)),
                       !.executionTimeSeconds = Some(1),
                       !.distributionId = Some(1),
                       !.completedAt = Some(2)]

RunRows == {NewRun, RunningRun, FailedRun, CompletedRun}

RunTables == UNION {[1..n -> RunRows] : n \in 0..MaxRows}

UpdateSets ==
    { <<>>,
      [status |-> "RUNNING", startedAt |-> Some(3)],
      [status |-> "FAILED", errorMessage |-> Some(MsgTimeout),
       completedAt |-> Some(3)],
      [status |-> "CANCELLED", completedAt |-> Some(3)],
      [status |-> "COMPLETED", progress |-> 100, currentGeneration |-> 42,
       bestFitness |-> Some(Score(10, 0)), executionTimeSeconds |-> Some(2),
       distributionId |-> Some(1), completedAt |-> Some(3)],
      [progress |-> 50, currentGeneration |-> 21],
      [errorMessage |-> None, distributionId |-> None] }

InitUpdate ==
    /\ students = 0
    /\ classes = <<>>
    /\ runs \in RunTables
    /\ distributions = {}
    /\ assignments = {}
    /\ nextDistributionId = 1
    /\ task = <<>>
    /\ solverCalls = <<>>
    /\ cancel = [pc |-> "idle", runId |-> 0, status |-> ""]
    /\ cancelCount = 0
    /\ cancelResult = None
    /\ now = <<>>
    /\ reply = None
    /\ deletion = [pc |-> "idle", id |-> 0]
    /\ configurations = SeedConfigurations
    /\ resolution = None
    /\ lastUpdate = None

(* One call: the id may name no row (Len(runs) + 1). *)
UpdateRun ==
    /\ lastUpdate = None
    /\ \E id \in 1..(Len(runs) + 1), updates \in UpdateSets :
          /\ runs' = updateOptimizationRun(runs, id, updates)
          /\ lastUpdate' = Some([id |-> id, updates |-> updates,
                                 before |-> runs,
                                 result |-> IF id \in DOMAIN runs
                                            THEN Some(runs'[id]) ELSE None])
    /\ UNCHANGED <<db, http, results, task, solverCalls, cancels, now,
                   resolution>>

NextUpdate == UpdateRun

UpdateSpec == InitUpdate /\ [][NextUpdate]_vars

----------------------------------------------------------------------------
(* Overlapping requests for one scope: optimize has accepted                *)
(* MaxConcurrent requests for the same (schoolYearId, gradeLevelId), each   *)
(* has its PENDING row and its background task, and the tasks run with no   *)
(* lock, queue or check for another run of the scope between them.          *)

MaxConcurrent == 2

InitConcurrent ==
    /\ students \in StudentTables
    /\ classes \in ClassTables
    /\ runs = [r \in 1..MaxConcurrent |-> NewRun]
    /\ distributions = {}
    /\ assignments = {}
    /\ nextDistributionId = 1
    /\ task = [r \in 1..MaxConcurrent |-> NewTask]
    /\ solverCalls = [r \in 1..MaxConcurrent |-> 0]
    /\ cancel = [pc |-> "idle", runId |-> 0, status |-> ""]
    /\ cancelCount = 0
    /\ cancelResult = None
    /\ now = [r \in 1..MaxConcurrent |-> 1]
    /\ reply = Accepted(MaxConcurrent, NewRun)
    /\ deletion = [pc |-> "idle", id |-> 0]
    /\ configurations = SeedConfigurations
    /\ resolution = None
    /\ lastUpdate = None

NextConcurrent == \E r \in 1..MaxConcurrent : Step(r)

ConcurrentSpec == InitConcurrent /\ [][NextConcurrent]_vars

----------------------------------------------------------------------------
(* Properties. *)

RunIds == DOMAIN runs

\* the Distribution rows a run's task created
DistributionsOf(r) == {d \in distributions : d.metadata.runId = r}

\* the step taken is the update statement of cancelOptimization
CancelWriteStep == cancel.pc = "update" /\ cancel'.pc = "idle"

\* C1: once a run's stored status is COMPLETED, FAILED or CANCELLED, no
\* later write changes it to a different value, whatever the interleaving of
\* the background task with cancelOptimization calls.
C1_TerminalStatusNeverChanges ==
    [][\A r \in RunIds :
          runs[r].status \in Terminal => runs'[r].status = runs[r].status]_vars

\* C2: for every run, distributionId is non-null if and only if the status
\* is COMPLETED.
C2_DistributionIdIffCompleted ==
    \A r \in RunIds :
        (runs[r].distributionId # None) <=> (runs[r].status = "COMPLETED")

\* C3: for every run, errorMessage is non-null if and only if the status is
\* FAILED; a CANCELLED run carries no error message.
C3_ErrorMessageIffFailed ==
    \A r \in RunIds :
        (runs[r].errorMessage # None) <=> (runs[r].status = "FAILED")

\* C4: when the insertion of a run's assignments fails after its
\* Distribution row was created, no Distribution row and no assignment row
\* of that run is visible afterwards (the run then being FAILED): here, for
\* the state the failing statement leaves.
C4_FailedCommitLeavesNoRows ==
    [][\A r \in RunIds :
          (task[r].pc = "createAssignments" /\ task'[r].pc = "execCatch")
              => /\ DistributionsOf(r)' = {}
                 /\ \A a \in assignments' :
                       a.distributionId # task[r].distributionId[1]]_vars

\* C5: every started run ends in a terminal status: when its background
\* task has nothing left to do, the run is COMPLETED, FAILED or CANCELLED
\* and not PENDING or RUNNING.
C5_FinishedTaskLeavesTerminalRun ==
    \A r \in RunIds : task[r].pc = "done" => runs[r].status \in Terminal

\* the task of run r read at least one student and classes whose capacities
\* sum to less than the number of students
ReadInsufficientCapacity(r) ==
    /\ task[r].students >= 1
    /\ Len(task[r].classes) >= 1
    /\ totalCapacity(task[r].classes) < task[r].students

\* the capacity message for what the task of run r read
CapacityMessageOf(r) ==
    MsgCapacity(task[r].students, totalCapacity(task[r].classes))

\* C6: a run with N >= 1 students and classes whose capacities sum to C < N
\* ends FAILED with the capacity message, and the solver is never invoked
\* for it.  The final record is required of the runs whose task finished
\* with the capacity error as the error it reports.
C6_InsufficientCapacityEndsFailed ==
    \A r \in RunIds :
        ReadInsufficientCapacity(r) =>
            /\ solverCalls[r] = 0
            /\ (task[r].pc = "done" /\ task[r].error = Some(CapacityMessageOf(r))) =>
                  /\ runs[r].status = "FAILED"
                  /\ runs[r].errorMessage = Some(CapacityMessageOf(r))

\* the three preconditions, on what the assembler of run r has read
PreconditionsHold(r) ==
    /\ task[r].students >= 1
    /\ Len(task[r].classes) >= 1
    /\ totalCapacity(task[r].classes) >= task[r].students

\* C7: the solver is invoked for a run only if the assembler read at least
\* one student, at least one class and a total capacity not smaller than the
\* number of students; when a precondition fails, no request is sent and no
\* Distribution is created for the run.
C7_SolverOnlyAfterPreconditions ==
    \A r \in RunIds :
        /\ solverCalls[r] > 0 => PreconditionsHold(r)
        /\ ~PreconditionsHold(r) =>
              solverCalls[r] = 0 /\ DistributionsOf(r) = {}

\* a task that stopped on an insufficient capacity without any request
C7_Witness ==
    \E r \in RunIds :
        /\ task[r].pc = "done"
        /\ ReadInsufficientCapacity(r)
        /\ solverCalls[r] = 0
        /\ runs[r].status = "FAILED"

\* C8: a cancelOptimization call on a run whose status is COMPLETED or
\* FAILED returns false and leaves every field of the run's record
\* unchanged.
C8_CancelOfFinishedRunIsNoOp ==
    [][\A id \in RunIds :
          (CancelRead(id) /\ runs[id].status \in {"COMPLETED", "FAILED"})
              => /\ cancel'.pc = "idle"
                 /\ cancelResult' = Some(FALSE)
                 /\ runs' = runs]_vars

\* the last call returned false, on a run that is COMPLETED or FAILED
C8_Witness ==
    /\ cancel.pc = "idle"
    /\ cancelResult = Some(FALSE)
    /\ \E r \in RunIds : runs[r].status \in {"COMPLETED", "FAILED"}

\* C9: cancelOptimization takes effect only on a run it found PENDING or
\* RUNNING; on a run it found in any other status, CANCELLED included, it
\* does not modify the record (completedAt included).
C9_CancelOnlyPendingOrRunning ==
    [][(CancelWriteStep /\ cancel.status \notin {"PENDING", "RUNNING"})
          => runs' = runs]_vars

\* C10: the write of cancelOptimization never lands on a stored COMPLETED
\* or FAILED, whatever the background task did between the lookup and the
\* write of the call.
C10_CancelNeverOverwritesFinished ==
    [][(CancelWriteStep /\ runs' # runs)
          => runs[cancel.runId].status \notin {"COMPLETED", "FAILED"}]_vars

\* the outcome of the solver request of run r was an error: no response, an
\* error status, or a response whose success flag is false
SolverCallFailed(r) ==
    /\ task[r].response # None
    /\ callPythonServiceError(task[r].response[1]) # ""

\* C11: for every run the solver is invoked at most once over the run's
\* lifetime; a request that ends in a timeout, a refused connection or a
\* rejection is not followed by a second request for the same run.
C11_AtMostOneSolverCall ==
    \A r \in RunIds : solverCalls[r] <= 1

\* a task that finished after a failed request, having sent exactly one
C11_Witness ==
    \E r \in RunIds :
        /\ task[r].pc = "done"
        /\ SolverCallFailed(r)
        /\ solverCalls[r] = 1

\* the step sends the solver request of run r
SolverRequestStep(r) == solverCalls'[r] > solverCalls[r]

\* the step creates a Distribution originating from run r
DistributionCreatedStep(r) == DistributionsOf(r)' \ DistributionsOf(r) # {}

\* the step stores COMPLETED in the record of run r
CompletedWriteStep(r) ==
    runs[r].status # "COMPLETED" /\ runs'[r].status = "COMPLETED"

\* C12: within one run the phases are ordered: the solver request is sent
\* only after the payload was assembled without error, the Distribution is
\* created only after the solver returned a success result, and COMPLETED
\* is written only after all the assignments of the result were inserted.
C12_PhasesInOrder ==
    [][\A r \in RunIds :
          /\ SolverRequestStep(r) =>
                /\ PreconditionsHold(r)
                /\ task[r].error = None
                /\ DistributionsOf(r) = {}
          /\ DistributionCreatedStep(r) =>
                /\ solverCalls[r] = 1
                /\ task[r].result # None
                /\ task[r].result = task[r].response
                /\ task[r].result[1].code = ""
                /\ task[r].result[1].success
                /\ task[r].saved = None
          /\ CompletedWriteStep(r) =>
                /\ task[r].distributionId # None
                /\ task[r].saved = Some(Len(task[r].result[1].assignments))]_vars

\* a run that went through the three phases and was stored COMPLETED
C12_Witness ==
    \E r \in RunIds :
        /\ runs[r].status = "COMPLETED"
        /\ solverCalls[r] = 1
        /\ task[r].saved = Some(2)
        /\ DistributionsOf(r) # {}

\* C13: a start request that names the school year and the grade level
\* creates exactly one new run, PENDING with progress 0, currentGeneration 0
\* and no distributionId, errorMessage, startedAt or completedAt, and is
\* answered with that run's id and status PENDING before any step of the
\* pipeline; no later step changes the reply; the only failure of such a
\* request is the failure of the run-creation write, which creates nothing.
C13_StartCreatesPendingRunAndReplies ==
    [][/\ Len(runs') # Len(runs) =>
            /\ Len(runs') = Len(runs) + 1
            /\ \A r \in RunIds : runs'[r] = runs[r] /\ task'[r] = task[r]
            /\ LET n == Len(runs')
               IN /\ runs'[n].status = "PENDING"
                  /\ runs'[n].progress = 0
                  /\ runs'[n].currentGeneration = 0
                  /\ runs'[n].distributionId = None
                  /\ runs'[n].errorMessage = None
                  /\ runs'[n].startedAt = None
                  /\ runs'[n].completedAt = None
                  /\ task'[n].pc = "find"
                  /\ solverCalls'[n] = 0
                  /\ reply' = Some([code |-> 202, runId |-> n,
                                    status |-> "PENDING"])
       /\ (Len(runs') = Len(runs) /\ reply' # reply) =>
            /\ runs' = runs
            /\ task' = task
            /\ \/ reply' = Some([code |-> 400, runId |-> 0, status |-> ""])
               \/ reply' = Some([code |-> 500, runId |-> 0,
                                 status |-> MsgDatabase])]_vars

\* the reply to the start of a run is still the 202 with PENDING after the
\* pipeline of that run has failed and finished
C13_Witness ==
    \E r \in RunIds :
        /\ reply = Some([code |-> 202, runId |-> r, status |-> "PENDING"])
        /\ task[r].pc = "done"
        /\ runs[r].status = "FAILED"

\* C14: when the solver call of a run ended in an error (timeout, solver
\* unreachable, non-success response), no Distribution and no assignment row
\* is created for the run, and the run is recorded FAILED once its task has
\* finished.
C14_SolverErrorEndsFailedWithoutRows ==
    \A r \in RunIds :
        SolverCallFailed(r) =>
            /\ DistributionsOf(r) = {}
            /\ task[r].distributionId = None
            /\ task[r].saved = None
            /\ task[r].pc = "done" => runs[r].status = "FAILED"

\* the Distribution the record of run r refers to
ReferredDistributions(r) ==
    {d \in distributions : runs[r].distributionId = Some(d.id)}

\* C15 as stated: a run never has more than one Distribution originating
\* from it, and every COMPLETED run has exactly one, which is the one its
\* distributionId refers to.
C15_CompletedRunHasItsDistribution ==
    \A r \in RunIds :
        /\ Cardinality(DistributionsOf(r)) <= 1
        /\ runs[r].status = "COMPLETED" =>
              /\ Cardinality(DistributionsOf(r)) = 1
              /\ ReferredDistributions(r) = DistributionsOf(r)

\* C15 amended: a run never has more than one Distribution originating from
\* it, and every COMPLETED run either has exactly one, which is the one its
\* distributionId refers to, or has none and a null distributionId (its
\* Distribution was deleted).
C15_AtMostOneDistributionPerRun ==
    \A r \in RunIds :
        /\ Cardinality(DistributionsOf(r)) <= 1
        /\ runs[r].status = "COMPLETED" =>
              \/ /\ Cardinality(DistributionsOf(r)) = 1
                 /\ ReferredDistributions(r) = DistributionsOf(r)
              \/ /\ DistributionsOf(r) = {}
                 /\ runs[r].distributionId = None

\* a COMPLETED run whose record refers to the one Distribution it produced
C15_Witness ==
    \E r \in RunIds :
        /\ runs[r].status = "COMPLETED"
        /\ Cardinality(DistributionsOf(r)) = 1
        /\ ReferredDistributions(r) = DistributionsOf(r)

\* C16 as stated: while a run is COMPLETED its progress is 100, its
\* bestFitness equals the fitnessScore of the solver result, its
\* currentGeneration equals the result's generationCount and its completedAt
\* is set.
C16_CompletedRecordHoldsResult ==
    \A r \in RunIds :
        runs[r].status = "COMPLETED" =>
            /\ task[r].result # None
            /\ runs[r].progress = 100
            /\ runs[r].bestFitness = Some(task[r].result[1].fitnessScore)
            /\ runs[r].currentGeneration = task[r].result[1].generationCount
            /\ runs[r].completedAt # None

\* C16 amended: while a run is COMPLETED its progress is 100, its
\* bestFitness equals the fitnessScore of the solver result rounded to two
\* decimals, its currentGeneration equals the result's generationCount and
\* its completedAt is set.
C16_CompletedRecordHoldsRoundedResult ==
    \A r \in RunIds :
        runs[r].status = "COMPLETED" =>
            /\ task[r].result # None
            /\ runs[r].progress = 100
            /\ runs[r].bestFitness =
                  Some(((task[r].result[1].fitnessScore + 5) \div 10) * 10)
            /\ runs[r].currentGeneration = task[r].result[1].generationCount
            /\ runs[r].completedAt # None

\* a COMPLETED run whose result carried a score with three decimals
C16_Witness ==
    \E r \in RunIds :
        /\ runs[r].status = "COMPLETED"
        /\ task[r].result # None
        /\ task[r].result[1].fitnessScore = Score(950, 125)
        /\ runs[r].bestFitness = Some(Score(950, 130))

\* C17: for every solver success result, one whose fitnessScore is 0
\* included, the Distribution the commit creates has isOptimized = true,
\* isFinal = false and a stored fitnessScore equal to the result's
\* fitnessScore.
C17_DistributionStoresFitnessScore ==
    \A r \in RunIds : \A d \in DistributionsOf(r) :
        /\ task[r].result # None
        /\ d.isOptimized
        /\ ~d.isFinal
        /\ d.fitnessScore = Some(task[r].result[1].fitnessScore)

\* the (studentId, classId) pairs of the assignment rows of Distribution d
PairsOf(d) ==
    {Pair(a.studentId, a.classId) :
        a \in {x \in assignments : x.distributionId = d.id}}

\* the pairs of a list the solver returned
PairsIn(list) == {list[i] : i \in DOMAIN list}

\* C18: for every COMPLETED run, the assignment rows of its Distribution
\* are exactly the pairs the solver returned: one row per returned pair, all
\* bound to that Distribution, none missing and none added.
C18_AssignmentRowsAreTheReturnedPairs ==
    \A r \in RunIds :
        runs[r].status = "COMPLETED" =>
            \A d \in DistributionsOf(r) :
                /\ task[r].result # None
                /\ PairsOf(d) = PairsIn(task[r].result[1].assignments)
                /\ Cardinality(PairsOf(d)) = Len(task[r].result[1].assignments)

\* C19: in every reachable state there is at most one assignment row per
\* (distributionId, studentId), whatever list the solver returned, a list
\* naming the same student twice included.
C19_OneAssignmentPerStudent ==
    \A a, b \in assignments :
        (a.distributionId = b.distributionId /\ a.studentId = b.studentId)
            => a = b

\* the solver returned a list naming a student twice, the INSERT of its
\* rows was tried and the task went on to its end
C19_Witness ==
    \E r \in RunIds :
        /\ task[r].pc = "done"
        /\ task[r].distributionId # None
        /\ task[r].result # None
        /\ \E i, j \in DOMAIN task[r].result[1].assignments :
              /\ i # j
              /\ task[r].result[1].assignments[i].studentId =
                    task[r].result[1].assignments[j].studentId

\* the solver answered the request of run r with a non-success outcome
\* carrying a message: a response whose success flag is false, or an error
\* status with a message in its body
SolverRejectedWithMessage(r) ==
    /\ task[r].response # None
    /\ task[r].response[1].body # ""
    /\ \/ task[r].response[1].code = "" /\ ~task[r].response[1].success
       \/ task[r].response[1].code = "ERR_BAD_RESPONSE"

\* C20: for every non-success outcome reported by the solver with a
\* message, the run ends FAILED and the errorMessage of its FAILED record is
\* the message the solver supplied.
C20_SolverMessageIsRecorded ==
    \A r \in RunIds :
        SolverRejectedWithMessage(r) =>
            /\ runs[r].status = "FAILED" =>
                  runs[r].errorMessage = Some(task[r].response[1].body)
            /\ task[r].pc = "done" => runs[r].status = "FAILED"

\* the messages callPythonService records for the transport errors whose
\* code is not `code`
OtherTransportMessages(code) ==
    {callPythonServiceError(o) :
        o \in {x \in SolverOutcomes : x.code # "" /\ x.code # code}}

\* C21: a solver call that exceeds the client's wait bound and one whose
\* connection is refused end the run FAILED, with two different
\* errorMessages, each different from the message recorded for any other
\* transport error.
C21_TimeoutAndRefusedAreDistinguished ==
    \A r \in RunIds :
        (/\ task[r].pc = "done"
         /\ task[r].response # None
         /\ task[r].response[1].code \in {"ECONNABORTED", "ECONNREFUSED"}) =>
            /\ runs[r].status = "FAILED"
            /\ runs[r].errorMessage # None
            /\ runs[r].errorMessage[1] =
                  (IF task[r].response[1].code = "ECONNABORTED"
                   THEN MsgTimeout ELSE MsgConnRefused)
            /\ MsgTimeout # MsgConnRefused
            /\ runs[r].errorMessage[1] \notin
                  OtherTransportMessages(task[r].response[1].code)

\* C22: the weights sent for a run are those of the configuration its
\* configurationId names when it has one; without a configurationId they are
\* those of the configuration flagged default; with neither they are the
\* hard-coded vector of seven weights 1000, 500, 300, 200, 100, 50, 50.
C22_WeightsResolvedInThreeSteps ==
    resolution # None =>
        LET configurationId == resolution[1].configurationId
            weights == resolution[1].weights
            defaults == {i \in DOMAIN configurations :
                            configurations[i].isDefault}
        IN  /\ configurationId # None =>
                  weights = configurations[configurationId[1]].weights
            /\ (configurationId = None /\ defaults # {}) =>
                  \E i \in defaults : weights = configurations[i].weights
            /\ (configurationId = None /\ defaults = {}) =>
                  /\ DOMAIN weights =
                        {"critical_constraints", "high_constraints",
                         "behavioral_separation", "sibling_rules",
                         "student_preferences", "academic_balance",
                         "class_size_balance"}
                  /\ weights.critical_constraints = 1000
                  /\ weights.high_constraints = 500
                  /\ weights.behavioral_separation = 300
                  /\ weights.sibling_rules = 200
                  /\ weights.student_preferences = 100
                  /\ weights.academic_balance = 50
                  /\ weights.class_size_balance = 50

\* A run names the second configuration while the first is the default one
\* with other weights, and the second one's weights were resolved.
C22_Witness ==
    /\ resolution # None
    /\ resolution[1].configurationId = Some(2)
    /\ Len(configurations) = 2
    /\ configurations[1].isDefault
    /\ configurations[1].weights # configurations[2].weights
    /\ resolution[1].weights = configurations[2].weights

\* C23: updateOptimizationRun(id, fields) changes exactly the supplied fields
\* of run id, to the supplied values, and leaves that run's other fields and
\* every other run as they were; for an id that names no run it returns
\* not-found and changes nothing.
C23_UpdateChangesSuppliedFieldsOnly ==
    lastUpdate # None =>
        LET id == lastUpdate[1].id
            updates == lastUpdate[1].updates
            before == lastUpdate[1].before
        IN  IF id \in DOMAIN before
            THEN /\ DOMAIN runs = DOMAIN before
                 /\ \A r \in DOMAIN runs \ {id} : runs[r] = before[r]
                 /\ DOMAIN runs[id] = DOMAIN before[id]
                 /\ \A f \in DOMAIN runs[id] :
                       IF f \in DOMAIN updates
                       THEN runs[id][f] = updates[f]
                       ELSE runs[id][f] = before[id][f]
                 /\ lastUpdate[1].result = Some(runs[id])
            ELSE /\ lastUpdate[1].result = None
                 /\ runs = before

\* A FAILED run next to another run was updated with two fields: both changed
\* and its error message is still there.
C23_Witness ==
    /\ lastUpdate # None
    /\ Len(runs) = 2
    /\ lastUpdate[1].id = 1
    /\ lastUpdate[1].before[1] = FailedRun
    /\ DOMAIN lastUpdate[1].updates = {"progress", "currentGeneration"}
    /\ runs[1].progress = 50
    /\ runs[1].currentGeneration = 21
    /\ runs[1].errorMessage = Some(MsgSolverFailed)
    /\ runs[1] # FailedRun

\* C24: runs started for the same scope are not serialized: whatever the
\* other run is doing, a run's task can take its next step, store RUNNING
\* when it is about to start and store COMPLETED when its assignments are
\* saved; and two runs never refer to the same Distribution: each refers to
\* one created by its own task.  (That both are RUNNING at once, each with
\* its own Distribution, is the witness.)
C24_RunsOfOneScopeAreNotSerialized ==
    /\ \A r \in RunIds :
          /\ task[r].pc # "done" => ENABLED Step(r)
          /\ At(r, "setRunning") =>
                ENABLED (ExecSetRunning(r) /\ runs'[r].status = "RUNNING")
          /\ At(r, "setCompleted") =>
                ENABLED (ExecSetCompleted(r) /\ runs'[r].status = "COMPLETED")
          /\ ReferredDistributions(r) \subseteq DistributionsOf(r)
    /\ \A r1, r2 \in RunIds :
          (r1 # r2 /\ runs[r1].distributionId # None) =>
              runs[r1].distributionId # runs[r2].distributionId

\* Two runs of the scope are RUNNING at once, each has created and filled its
\* own Distribution, and each is about to store COMPLETED.
C24_Witness ==
    /\ Len(runs) >= 2
    /\ runs[1].status = "RUNNING" /\ runs[2].status = "RUNNING"
    /\ At(1, "setCompleted") /\ At(2, "setCompleted")
    /\ task[1].distributionId # task[2].distributionId
    /\ DistributionExists(task[1].distributionId[1])
    /\ DistributionExists(task[2].distributionId[1])
    /\ DistributionsOf(1) # {} /\ DistributionsOf(2) # {}

\* the step is the DELETE of the Distribution the call names, and it went
\* through
DistributionDeletedStep ==
    /\ deletion.pc = "delete"
    /\ deletion'.pc = "idle"
    /\ distributions' # distributions

\* C25: when the DELETE of a Distribution that a COMPLETED run refers to is
\* about to be sent, the run's record does not block it (the statement can go
\* through); and when it goes through, the Distribution and all its
\* assignment rows are gone and the run's record is kept, COMPLETED, changed
\* in nothing but the reference it held.
C25_DeletionIsNotBlockedByTheRun ==
    [][\A r \in RunIds :
          (/\ deletion.pc = "delete"
           /\ runs[r].status = "COMPLETED"
           /\ runs[r].distributionId = Some(deletion.id)) =>
              /\ ENABLED (DeleteDistribution /\ distributions' # distributions)
              /\ DistributionDeletedStep =>
                    /\ \A d \in distributions' : d.id # deletion.id
                    /\ \A a \in assignments' : a.distributionId # deletion.id
                    /\ DOMAIN runs' = DOMAIN runs
                    /\ runs'[r].status = "COMPLETED"
                    /\ \A f \in DOMAIN runs[r] \ {"distributionId"} :
                          runs'[r][f] = runs[r][f]]_vars

\* The Distribution of a COMPLETED run, which held two assignment rows, was
\* deleted: the run is still COMPLETED and neither the Distribution nor a row
\* of it is left.
C25_Witness ==
    \E r \in RunIds :
        /\ runs[r].status = "COMPLETED"
        /\ deletion.pc = "idle"
        /\ task[r].saved = Some(2)
        /\ task[r].distributionId # None
        /\ ~DistributionExists(task[r].distributionId[1])
        /\ \A a \in assignments :
              a.distributionId # task[r].distributionId[1]

\* C26: a run's status never goes from PENDING directly to COMPLETED or
\* FAILED, and every run whose record holds COMPLETED or FAILED has startedAt
\* set.
C26_NeverFromPendingToFinished ==
    [][\A r \in RunIds :
          /\ runs[r].status = "PENDING" =>
                runs'[r].status \notin {"COMPLETED", "FAILED"}
          /\ runs'[r].status \in {"COMPLETED", "FAILED"} =>
                runs'[r].startedAt # None]_vars

\* the step taken is a step of the background task of run r
TaskStep(r) == task'[r] # task[r]

\* C27: once a run's record holds a terminal status, no later step of the
\* run's background task modifies any field of the record; in particular the
\* failure path writes the FAILED record once.
C27_TaskLeavesTerminalRecordAlone ==
    [][\A r \in RunIds :
          (runs[r].status \in Terminal /\ TaskStep(r)) =>
              runs'[r] = runs[r]]_vars

\* the step inserts an assignment row into a Distribution run r created
AssignmentCreatedStep(r) ==
    \E a \in assignments' \ assignments :
        \E d \in DistributionsOf(r)' : a.distributionId = d.id

\* C28: after cancelOptimization has returned true for a run, no solver
\* request is issued for it and no Distribution or assignment row is created
\* for it.  Stated for the steps taken while the record holds CANCELLED, the
\* status only a cancelOptimization call that returns true stores.
C28_NothingIsDoneForACancelledRun ==
    [][\A r \in RunIds :
          runs[r].status = "CANCELLED" =>
              /\ ~SolverRequestStep(r)
              /\ ~DistributionCreatedStep(r)
              /\ ~AssignmentCreatedStep(r)]_vars

\* C29: for every run, completedAt is set exactly when the status is
\* COMPLETED, FAILED or CANCELLED.
C29_CompletedAtIffTerminal ==
    \A r \in RunIds :
        runs[r].completedAt # None <=> runs[r].status \in Terminal

\* the assignment rows of Distribution d
RowsOf(d) == {a \in assignments : a.distributionId = d.id}

\* C30: for every COMPLETED run, each student of the payload has exactly one
\* assignment row in the Distribution the run refers to, and every row of it
\* names a class of the payload, whatever list the solver returned with
\* success = true.
C30_EveryStudentIsAssignedOnce ==
    \A r \in RunIds :
        runs[r].status = "COMPLETED" =>
            \A d \in ReferredDistributions(r) :
                /\ \A s \in 1..task[r].students :
                      Cardinality({a \in RowsOf(d) : a.studentId = s}) = 1
                /\ \A a \in RowsOf(d) : a.classId \in DOMAIN task[r].classes

====
